---- MODULE Spec2Model ----
(***************************************************************************)
(* Model of src/src/core/WorkerManager.ts: the registry of job types, the  *)
(* worker threads it creates, the messages exchanged with them and the     *)
(* promises returned by processJob.                                        *)
(***************************************************************************)
EXTENDS Integers, Sequences, FiniteSets, TLC

\* ---------------------------------------------------------------- bounds
MaxCalls == 4

JobTypes == {"a", "b"}
Handlers == {"H1", "H2"}
MaxWorkersArgs == {0, 1, 2}
Outcomes == {"result", "error", "hang"}

VARIABLES
    jobProcessors,  \* Map<string, {processorFunction, workers, maxWorkers}>
    threads,        \* every Worker ever constructed, by id (= index)
    requests,       \* every promise returned by processJob, by sentinel (= index)
    last,           \* the most recent call on the manager: inputs and outcome
    calls           \* number of calls made on the manager

vars == <<jobProcessors, threads, requests, last, calls>>

\* ------------------------------------------------------------- helpers
Has(jp, jt) == jt \in DOMAIN jp

MapSet(jp, jt, v) == [k \in (DOMAIN jp) \cup {jt} |-> IF k = jt THEN v ELSE jp[k]]

MapDelete(jp, jt) == [k \in (DOMAIN jp) \ {jt} |-> jp[k]]

NewThread(jt) ==
    [jobType |-> jt, handler |-> "none", inbox |-> <<>>, outbox |-> <<>>,
     listeners |-> <<>>, sent |-> <<>>, answered |-> 0, exited |-> FALSE]

PostMessage(th, w, msg) ==
    [th EXCEPT ![w].inbox = Append(@, msg), ![w].sent = Append(@, msg)]

Once(th, w, req) == [th EXCEPT ![w].listeners = Append(@, req)]

Call(op, jt, pf, n, ok, ret, err, val) ==
    [op |-> op, jt |-> jt, pf |-> pf, n |-> n, createOk |-> ok,
     ret |-> ret, err |-> err, val |-> val]

\* ------------------------------------------------- WorkerManager methods
\* spawnWorker without the check of workers.length against maxWorkers
SpawnWorker_NoCapacityCheck(jp, th, jt, createOk) ==
    IF ~Has(jp, jt)
    THEN [jp |-> jp, th |-> th, ret |-> "throw", err |-> "UnknownJobType"]
    ELSE IF ~createOk
    THEN [jp |-> jp, th |-> th, ret |-> "throw", err |-> "WorkerSpawnFailure"]
    ELSE LET w == Len(th) + 1
             th1 == Append(th, NewThread(jt))
             th2 == PostMessage(th1, w,
                       [type |-> "init", fn |-> jp[jt].processorFunction, req |-> 0])
         IN [jp |-> [jp EXCEPT ![jt].workers = Append(@, w)],
             th |-> th2, ret |-> "true", err |-> "none"]

\* spawnWorker with workers.length > maxWorkers in place of >=
SpawnWorker_OffByOne(jp, th, jt, createOk) ==
    IF ~Has(jp, jt)
    THEN [jp |-> jp, th |-> th, ret |-> "throw", err |-> "UnknownJobType"]
    ELSE IF Len(jp[jt].workers) > jp[jt].maxWorkers
    THEN [jp |-> jp, th |-> th, ret |-> "false", err |-> "MaxWorkersReached"]
    ELSE IF ~createOk
    THEN [jp |-> jp, th |-> th, ret |-> "throw", err |-> "WorkerSpawnFailure"]
    ELSE LET w == Len(th) + 1
             th1 == Append(th, NewThread(jt))
             th2 == PostMessage(th1, w,
                       [type |-> "init", fn |-> jp[jt].processorFunction, req |-> 0])
         IN [jp |-> [jp EXCEPT ![jt].workers = Append(@, w)],
             th |-> th2, ret |-> "true", err |-> "none"]

\* spawnWorker that pushes the worker without posting the init message
SpawnWorker_NoInit(jp, th, jt, createOk) ==
    IF ~Has(jp, jt)
    THEN [jp |-> jp, th |-> th, ret |-> "throw", err |-> "UnknownJobType"]
    ELSE IF Len(jp[jt].workers) >= jp[jt].maxWorkers
    THEN [jp |-> jp, th |-> th, ret |-> "false", err |-> "MaxWorkersReached"]
    ELSE IF ~createOk
    THEN [jp |-> jp, th |-> th, ret |-> "throw", err |-> "WorkerSpawnFailure"]
    ELSE LET w == Len(th) + 1
             th1 == Append(th, NewThread(jt))
         IN [jp |-> [jp EXCEPT ![jt].workers = Append(@, w)],
             th |-> th1, ret |-> "true", err |-> "none"]

\* spawnWorker(jobType): the registry and threads after the call, what it
\* returned ("true", "false") or that it threw, and the error thrown or warned.
SpawnWorker(jp, th, jt, createOk) ==
    IF ~Has(jp, jt)
    THEN [jp |-> jp, th |-> th, ret |-> "throw", err |-> "UnknownJobType"]
    ELSE IF Len(jp[jt].workers) >= jp[jt].maxWorkers
    THEN [jp |-> jp, th |-> th, ret |-> "false", err |-> "MaxWorkersReached"]
    ELSE IF ~createOk
    THEN [jp |-> jp, th |-> th, ret |-> "throw", err |-> "WorkerSpawnFailure"]
    ELSE LET w == Len(th) + 1
             th1 == Append(th, NewThread(jt))
             th2 == PostMessage(th1, w,
                       [type |-> "init", fn |-> jp[jt].processorFunction, req |-> 0])
         IN [jp |-> [jp EXCEPT ![jt].workers = Append(@, w)],
             th |-> th2, ret |-> "true", err |-> "none"]

\* registerJobProcessor without the check that the job type is registered
RegisterResult_Overwrite(jp, th, jt, pf, mw, createOk) ==
    IF mw <= 0
    THEN [jp |-> jp, th |-> th, ret |-> "throw", err |-> "InvalidConfiguration"]
    ELSE LET jp1 == MapSet(jp, jt, [processorFunction |-> pf,
                                    workers |-> <<>>, maxWorkers |-> mw])
             s == SpawnWorker(jp1, th, jt, createOk)
         IN IF s.ret = "throw"
            THEN [jp |-> MapDelete(s.jp, jt), th |-> s.th,
                  ret |-> "false", err |-> s.err]
            ELSE [jp |-> s.jp, th |-> s.th, ret |-> "true", err |-> "none"]

\* registerJobProcessor with maxWorkers < 0 in place of <= 0
RegisterResult_AcceptZero(jp, th, jt, pf, mw, createOk) ==
    IF mw < 0
    THEN [jp |-> jp, th |-> th, ret |-> "throw", err |-> "InvalidConfiguration"]
    ELSE IF Has(jp, jt)
    THEN [jp |-> jp, th |-> th, ret |-> "false", err |-> "AlreadyRegistered"]
    ELSE LET jp1 == MapSet(jp, jt, [processorFunction |-> pf,
                                    workers |-> <<>>, maxWorkers |-> mw])
             s == SpawnWorker(jp1, th, jt, createOk)
         IN IF s.ret = "throw"
            THEN [jp |-> MapDelete(s.jp, jt), th |-> s.th,
                  ret |-> "false", err |-> s.err]
            ELSE [jp |-> s.jp, th |-> s.th, ret |-> "true", err |-> "none"]

\* registerJobProcessor without the delete in the catch block
RegisterResult_NoRollback(jp, th, jt, pf, mw, createOk) ==
    IF mw <= 0
    THEN [jp |-> jp, th |-> th, ret |-> "throw", err |-> "InvalidConfiguration"]
    ELSE IF Has(jp, jt)
    THEN [jp |-> jp, th |-> th, ret |-> "false", err |-> "AlreadyRegistered"]
    ELSE LET jp1 == MapSet(jp, jt, [processorFunction |-> pf,
                                    workers |-> <<>>, maxWorkers |-> mw])
             s == SpawnWorker(jp1, th, jt, createOk)
         IN IF s.ret = "throw"
            THEN [jp |-> s.jp, th |-> s.th, ret |-> "false", err |-> s.err]
            ELSE [jp |-> s.jp, th |-> s.th, ret |-> "true", err |-> "none"]

\* registerJobProcessor(jobType, processorFunction, maxWorkers)
RegisterResult(jp, th, jt, pf, mw, createOk) ==
    IF mw <= 0
    THEN [jp |-> jp, th |-> th, ret |-> "throw", err |-> "InvalidConfiguration"]
    ELSE IF Has(jp, jt)
    THEN [jp |-> jp, th |-> th, ret |-> "false", err |-> "AlreadyRegistered"]
    ELSE LET jp1 == MapSet(jp, jt, [processorFunction |-> pf,
                                    workers |-> <<>>, maxWorkers |-> mw])
             s == SpawnWorker(jp1, th, jt, createOk)
         IN IF s.ret = "throw"
            THEN [jp |-> MapDelete(s.jp, jt), th |-> s.th,
                  ret |-> "false", err |-> s.err]
            ELSE [jp |-> s.jp, th |-> s.th, ret |-> "true", err |-> "none"]

\* getLeastBusyWorker over one worker list shared by all job types
GetLeastBusyWorker_AnyPool(jp, jt) ==
    LET all == UNION {{jp[k].workers[i] : i \in 1..Len(jp[k].workers)} : k \in DOMAIN jp}
    IN CHOOSE w \in all : \A v \in all : w <= v

\* getLeastBusyWorker(jobType): the first worker of the pool
GetLeastBusyWorker(jp, jt) == jp[jt].workers[1]

\* getWorkerCount(jobType)
WorkerCount(jp, jt) == IF Has(jp, jt) THEN Len(jp[jt].workers) ELSE 0

\* canSpawnWorker with <= in place of <
CanSpawn_LessEq(jp, jt) ==
    IF Has(jp, jt) THEN Len(jp[jt].workers) <= jp[jt].maxWorkers ELSE FALSE

\* canSpawnWorker(jobType)
CanSpawn(jp, jt) == IF Has(jp, jt) THEN Len(jp[jt].workers) < jp[jt].maxWorkers ELSE FALSE

\* ------------------------------------------------------------------ Init
Init ==
    /\ jobProcessors = <<>>
    /\ threads = <<>>
    /\ requests = <<>>
    /\ last = Call("none", "a", "H1", 0, TRUE, "none", "none", 0)
    /\ calls = 0

\* ---------------------------------------------------------------- calls
RegisterJobProcessor(jt, pf, mw, createOk) ==
    /\ calls < MaxCalls
    /\ LET r == RegisterResult(jobProcessors, threads, jt, pf, mw, createOk)
       IN /\ jobProcessors' = r.jp
          /\ threads' = r.th
          /\ last' = Call("register", jt, pf, mw, createOk, r.ret, r.err, 0)
    /\ calls' = calls + 1
    /\ UNCHANGED requests

Spawn(jt, createOk) ==
    /\ calls < MaxCalls
    /\ LET r == SpawnWorker(jobProcessors, threads, jt, createOk)
       IN /\ jobProcessors' = r.jp
          /\ threads' = r.th
          /\ last' = Call("spawn", jt, "H1", 0, createOk, r.ret, r.err, 0)
    /\ calls' = calls + 1
    /\ UNCHANGED requests

\* processJob that records the unknown job type in the registry before it throws
ProcessJobResult_CreatesPool(jp, th, rq, jt) ==
    IF ~Has(jp, jt)
    THEN [jp |-> MapSet(jp, jt, [processorFunction |-> "H1",
                                 workers |-> <<>>, maxWorkers |-> 1]),
          th |-> th, rq |-> rq, ret |-> "throw", err |-> "UnknownJobType"]
    ELSE IF Len(jp[jt].workers) = 0
    THEN [jp |-> jp, th |-> th, rq |-> rq, ret |-> "throw", err |-> "NoWorkers"]
    ELSE LET w == GetLeastBusyWorker(jp, jt)
             req == Len(rq) + 1
         IN [jp |-> jp,
             th |-> Once(PostMessage(th, w,
                       [type |-> "job", fn |-> "none", req |-> req]), w, req),
             rq |-> Append(rq, [jobType |-> jt, worker |-> w,
                                state |-> "pending", from |-> 0]),
             ret |-> "promise", err |-> "none"]

\* processJob that first spawns a worker when the pool has room for one
ProcessJobResult_SpawnsFirst(jp, th, rq, jt) ==
    IF ~Has(jp, jt)
    THEN [jp |-> jp, th |-> th, rq |-> rq, ret |-> "throw", err |-> "UnknownJobType"]
    ELSE IF Len(jp[jt].workers) = 0
    THEN [jp |-> jp, th |-> th, rq |-> rq, ret |-> "throw", err |-> "NoWorkers"]
    ELSE LET s == SpawnWorker(jp, th, jt, TRUE)
             w == GetLeastBusyWorker(s.jp, jt)
             req == Len(rq) + 1
         IN [jp |-> s.jp,
             th |-> Once(PostMessage(s.th, w,
                       [type |-> "job", fn |-> "none", req |-> req]), w, req),
             rq |-> Append(rq, [jobType |-> jt, worker |-> w,
                                state |-> "pending", from |-> 0]),
             ret |-> "promise", err |-> "none"]

\* processJob(jobType, jobData); jobData carries the sentinel of the request
ProcessJobResult(jp, th, rq, jt) ==
    IF ~Has(jp, jt)
    THEN [jp |-> jp, th |-> th, rq |-> rq, ret |-> "throw", err |-> "UnknownJobType"]
    ELSE IF Len(jp[jt].workers) = 0
    THEN [jp |-> jp, th |-> th, rq |-> rq, ret |-> "throw", err |-> "NoWorkers"]
    ELSE LET w == GetLeastBusyWorker(jp, jt)
             req == Len(rq) + 1
         IN [jp |-> jp,
             th |-> Once(PostMessage(th, w,
                       [type |-> "job", fn |-> "none", req |-> req]), w, req),
             rq |-> Append(rq, [jobType |-> jt, worker |-> w,
                                state |-> "pending", from |-> 0]),
             ret |-> "promise", err |-> "none"]

ProcessJob(jt) ==
    /\ calls < MaxCalls
    /\ LET r == ProcessJobResult(jobProcessors, threads, requests, jt)
       IN /\ jobProcessors' = r.jp
          /\ threads' = r.th
          /\ requests' = r.rq
          /\ last' = Call("processJob", jt, "H1", 0, TRUE, r.ret, r.err, Len(r.rq))
    /\ calls' = calls + 1

GetWorkerCount(jt) ==
    /\ calls < MaxCalls
    /\ calls' = calls + 1
    /\ last' = Call("getWorkerCount", jt, "H1", 0, TRUE, "count", "none",
                    WorkerCount(jobProcessors, jt))
    /\ UNCHANGED <<jobProcessors, threads, requests>>

CanSpawnWorker(jt) ==
    /\ calls < MaxCalls
    /\ calls' = calls + 1
    /\ last' = Call("canSpawnWorker", jt, "H1", 0, TRUE,
                    IF CanSpawn(jobProcessors, jt) THEN "true" ELSE "false", "none", 0)
    /\ UNCHANGED <<jobProcessors, threads, requests>>

\* ------------------------------------------------------ worker threads
\* The worker takes the init message and keeps the processor function.
WorkerInit(w) ==
    /\ w \in 1..Len(threads)
    /\ ~threads[w].exited
    /\ threads[w].inbox # <<>>
    /\ Head(threads[w].inbox).type = "init"
    /\ threads' = [threads EXCEPT ![w].inbox = Tail(@),
                                  ![w].handler = Head(threads[w].inbox).fn]
    /\ UNCHANGED <<jobProcessors, requests, last, calls>>

\* The worker takes a job message and answers with the result or the error
\* of the processor function on that job's data, or never answers.
WorkerRun(w, outcome) ==
    /\ w \in 1..Len(threads)
    /\ ~threads[w].exited
    /\ threads[w].inbox # <<>>
    /\ Head(threads[w].inbox).type = "job"
    /\ threads' = [threads EXCEPT
                     ![w].inbox = Tail(@),
                     ![w].answered = IF outcome = "hang" THEN @ ELSE @ + 1,
                     ![w].outbox = IF outcome = "hang" THEN @
                                   ELSE Append(@, [kind |-> outcome,
                                                   req |-> Head(threads[w].inbox).req])]
    /\ UNCHANGED <<jobProcessors, requests, last, calls>>

\* The worker thread exits unexpectedly; the manager listens for no 'exit'
\* or 'error' event, so nothing else changes.
WorkerExit(w) ==
    /\ w \in 1..Len(threads)
    /\ ~threads[w].exited
    /\ threads' = [threads EXCEPT ![w].exited = TRUE]
    /\ UNCHANGED <<jobProcessors, requests, last, calls>>

\* The 'message' event of a worker fires on the manager's thread: every
\* listener added with once() is called with the message and removed.
Settle(rq, ls, msg) ==
    [r \in 1..Len(rq) |->
        IF (\E i \in 1..Len(ls) : ls[i] = r) /\ rq[r].state = "pending"
        THEN [rq[r] EXCEPT !.state = IF msg.kind = "error" THEN "rejected" ELSE "resolved",
                           !.from = msg.req]
        ELSE rq[r]]

Deliver(w) ==
    /\ w \in 1..Len(threads)
    /\ threads[w].outbox # <<>>
    /\ requests' = Settle(requests, threads[w].listeners, Head(threads[w].outbox))
    /\ threads' = [threads EXCEPT ![w].outbox = Tail(@), ![w].listeners = <<>>]
    /\ UNCHANGED <<jobProcessors, last, calls>>

WorkerIds == 1..MaxCalls

Next ==
    \/ \E jt \in JobTypes, pf \in Handlers, mw \in MaxWorkersArgs, ok \in BOOLEAN :
          RegisterJobProcessor(jt, pf, mw, ok)
    \/ \E jt \in JobTypes, ok \in BOOLEAN : Spawn(jt, ok)
    \/ \E jt \in JobTypes : ProcessJob(jt)
    \/ \E jt \in JobTypes : GetWorkerCount(jt)
    \/ \E jt \in JobTypes : CanSpawnWorker(jt)
    \/ \E w \in WorkerIds : WorkerInit(w)
    \/ \E w \in WorkerIds, o \in Outcomes : WorkerRun(w, o)
    \/ \E w \in WorkerIds : Deliver(w)
    \/ \E w \in WorkerIds : WorkerExit(w)

Spec == Init /\ [][Next]_vars

\* The calls a client of the class can make: spawnWorker is private.
PublicNext ==
    \/ \E jt \in JobTypes, pf \in Handlers, mw \in MaxWorkersArgs, ok \in BOOLEAN :
          RegisterJobProcessor(jt, pf, mw, ok)
    \/ \E jt \in JobTypes : ProcessJob(jt)
    \/ \E jt \in JobTypes : GetWorkerCount(jt)
    \/ \E jt \in JobTypes : CanSpawnWorker(jt)
    \/ \E w \in WorkerIds : WorkerInit(w)
    \/ \E w \in WorkerIds, o \in Outcomes : WorkerRun(w, o)
    \/ \E w \in WorkerIds : Deliver(w)
    \/ \E w \in WorkerIds : WorkerExit(w)

PublicSpec == Init /\ [][PublicNext]_vars

FairSpec ==
    /\ Spec
    /\ \A w \in WorkerIds :
          /\ WF_vars(WorkerInit(w))
          /\ WF_vars(\E o \in Outcomes : WorkerRun(w, o))
          /\ WF_vars(Deliver(w))

TypeOK ==
    /\ calls \in 0..MaxCalls
    /\ DOMAIN jobProcessors \subseteq JobTypes
    /\ Len(threads) <= calls
    /\ Len(requests) <= calls

\* ---------------------------------------------------------------- claims
RequestIds == 1..MaxCalls

Registered == DOMAIN jobProcessors

Step(op) == calls' = calls + 1 /\ last'.op = op

JobsInFlight(w) ==
    Cardinality({i \in 1..Len(threads[w].inbox) : threads[w].inbox[i].type = "job"})

PoolInFlight(jt) ==
    Cardinality({p \in {<<w, i>> : w \in 1..Len(threads), i \in 1..MaxCalls + 1} :
                    /\ threads[p[1]].jobType = jt
                    /\ p[2] <= Len(threads[p[1]].inbox)
                    /\ threads[p[1]].inbox[p[2]].type = "job"})

\* C1: every handle is settled only by the worker response produced for its
\* own payload, and a response settles at most one handle.
C1_NoCrossTalk ==
    /\ \A r \in 1..Len(requests) :
          requests[r].state # "pending" => requests[r].from = r
    /\ \A r1, r2 \in 1..Len(requests) :
          (r1 # r2 /\ requests[r1].state # "pending" /\ requests[r2].state # "pending")
             => requests[r1].from # requests[r2].from

\* C2: every registered job type has at least one worker and at most
\* maxWorkers workers, in every state between calls.
C2_WorkerCountInBounds ==
    \A jt \in Registered :
        /\ 1 <= WorkerCount(jobProcessors, jt)
        /\ WorkerCount(jobProcessors, jt) <= jobProcessors[jt].maxWorkers

C2_Witness ==
    /\ last.op = "spawn" /\ last.ret = "true"
    /\ \E jt \in Registered :
          /\ WorkerCount(jobProcessors, jt) = 2
          /\ jobProcessors[jt].maxWorkers = 2
    /\ Len(requests) >= 1

\* C3: a worker never has more than one job sent to it and not yet answered,
\* and a pool never has more such jobs than it has workers.
C3_OneJobPerWorker ==
    /\ \A w \in 1..Len(threads) : JobsInFlight(w) <= 1
    /\ \A jt \in Registered : PoolInFlight(jt) <= WorkerCount(jobProcessors, jt)

\* C4: every request accepted by processJob is eventually settled (resolved
\* or rejected), also when its worker never answers.
C4_EventuallySettled ==
    \A r \in RequestIds :
        (r <= Len(requests)) ~> (r <= Len(requests) /\ requests[r].state # "pending")

\* C5 as stated: registering a registered job type fails with
\* AlreadyRegistered and leaves registry and workers as they were.
C5_AsStated ==
    [][(Step("register") /\ Has(jobProcessors, last'.jt))
          => /\ last'.ret = "false" /\ last'.err = "AlreadyRegistered"
             /\ UNCHANGED <<jobProcessors, threads, requests>>]_vars

\* C5 amended: registering a registered job type with maxWorkers > 0 fails
\* with AlreadyRegistered; with maxWorkers <= 0 it fails with
\* InvalidConfiguration; in both cases the registry (worker count, handler,
\* maxWorkers) is unchanged and no worker is spawned.
C5_ReRegisterLeavesPool ==
    [][(Step("register") /\ Has(jobProcessors, last'.jt))
          => /\ IF last'.n > 0
                THEN last'.ret = "false" /\ last'.err = "AlreadyRegistered"
                ELSE last'.ret = "throw" /\ last'.err = "InvalidConfiguration"
             /\ UNCHANGED <<jobProcessors, threads, requests>>]_vars

C5_Witness ==
    /\ last.op = "register" /\ last.err = "AlreadyRegistered"
    /\ Has(jobProcessors, last.jt)
    /\ jobProcessors[last.jt].processorFunction # last.pf
    /\ jobProcessors[last.jt].maxWorkers # last.n
    /\ last.createOk

\* C6: register with maxWorkers <= 0 fails with InvalidConfiguration, the
\* registry is unchanged, no worker is spawned, and the worker count of an
\* unregistered job type stays 0.
C6_InvalidMaxWorkers ==
    [][(Step("register") /\ last'.n <= 0)
          => /\ last'.ret = "throw" /\ last'.err = "InvalidConfiguration"
             /\ UNCHANGED <<jobProcessors, threads, requests>>
             /\ (~Has(jobProcessors, last'.jt)
                    => WorkerCount(jobProcessors', last'.jt) = 0)]_vars

C6_Witness ==
    /\ last.op = "register" /\ last.n <= 0 /\ last.ret = "throw"
    /\ ~Has(jobProcessors, last.jt)
    /\ Registered # {}

\* C7: when the initial spawn of a registration fails, the call fails with
\* WorkerSpawnFailure and the job type is left unregistered with no worker,
\* so that a later register of it with a working spawn succeeds.
C7_SpawnFailureRollsBack ==
    /\ [][(Step("register") /\ last'.n > 0 /\ ~Has(jobProcessors, last'.jt)
              /\ ~last'.createOk)
            => /\ last'.ret = "false" /\ last'.err = "WorkerSpawnFailure"
               /\ ~Has(jobProcessors', last'.jt)
               /\ WorkerCount(jobProcessors', last'.jt) = 0
               /\ UNCHANGED <<jobProcessors, threads, requests>>]_vars
    /\ [][(Step("register") /\ last'.n > 0 /\ ~Has(jobProcessors, last'.jt)
              /\ last'.createOk)
            => /\ last'.ret = "true"
               /\ WorkerCount(jobProcessors', last'.jt) = 1]_vars

C7_Witness ==
    /\ last.op = "register" /\ last.n > 0 /\ ~last.createOk
    /\ last.ret = "false" /\ last.err = "WorkerSpawnFailure"
    /\ ~Has(jobProcessors, last.jt)
    /\ Registered # {}

\* C8: processJob on an unregistered job type fails with UnknownJobType and
\* changes nothing: no pool, no worker, no message, no promise.
C8_UnknownJobTypeNoMutation ==
    [][(Step("processJob") /\ ~Has(jobProcessors, last'.jt))
          => /\ last'.ret = "throw" /\ last'.err = "UnknownJobType"
             /\ UNCHANGED <<jobProcessors, threads, requests>>]_vars

C8_Witness ==
    /\ last.op = "processJob" /\ last.err = "UnknownJobType"
    /\ ~Has(jobProcessors, last.jt)
    /\ Registered # {}
    /\ Len(requests) >= 1

\* C9: spawn on a pool with workers.length = maxWorkers returns false and
\* leaves the worker list and every worker's messages unchanged; canSpawn
\* returns false in that state.
C9_SpawnAtCapacityNoOp ==
    /\ [][(Step("spawn") /\ Has(jobProcessors, last'.jt)
              /\ Len(jobProcessors[last'.jt].workers) = jobProcessors[last'.jt].maxWorkers)
            => /\ last'.ret = "false"
               /\ UNCHANGED <<jobProcessors, threads, requests>>
               /\ ~CanSpawn(jobProcessors', last'.jt)]_vars
    /\ [][(Step("canSpawnWorker") /\ Has(jobProcessors, last'.jt)
              /\ Len(jobProcessors[last'.jt].workers) = jobProcessors[last'.jt].maxWorkers)
            => last'.ret = "false"]_vars

C9_Witness ==
    /\ last.op = "spawn" /\ last.ret = "false"
    /\ Has(jobProcessors, last.jt)
    /\ Len(jobProcessors[last.jt].workers) = jobProcessors[last.jt].maxWorkers
    /\ jobProcessors[last.jt].maxWorkers = 2

\* C10 as stated: canSpawn fails with UnknownJobType on an unregistered job
\* type, and otherwise returns workers.length < maxWorkers.
C10_AsStated ==
    [][Step("canSpawnWorker")
          => IF ~Has(jobProcessors, last'.jt)
             THEN last'.ret = "throw" /\ last'.err = "UnknownJobType"
             ELSE last'.ret = "true" <=>
                    Len(jobProcessors[last'.jt].workers) < jobProcessors[last'.jt].maxWorkers]_vars

\* C10 amended: canSpawn returns false, without failing, on an unregistered
\* job type, and otherwise returns true exactly when workers.length < maxWorkers.
C10_CanSpawnValue ==
    [][Step("canSpawnWorker")
          => /\ last'.err = "none"
             /\ last'.ret \in {"true", "false"}
             /\ UNCHANGED <<jobProcessors, threads, requests>>
             /\ IF ~Has(jobProcessors, last'.jt)
                THEN last'.ret = "false"
                ELSE last'.ret = "true" <=>
                       Len(jobProcessors[last'.jt].workers) < jobProcessors[last'.jt].maxWorkers]_vars

C10_Witness ==
    /\ last.op = "canSpawnWorker" /\ last.ret = "false"
    /\ ~Has(jobProcessors, last.jt)
    /\ Registered # {}

PoolWorkers(jt) ==
    {jobProcessors[jt].workers[i] : i \in 1..Len(jobProcessors[jt].workers)}

InPool(w) == \E jt \in Registered : w \in PoolWorkers(jt)

\* a worker that was sent more jobs than it has answered
Busy(w) == Len(threads[w].sent) - 1 > threads[w].answered

IdleWorkers(jt) == {w \in PoolWorkers(jt) : ~Busy(w) /\ ~threads[w].exited}

\* C11: a handle is rejected only by the error answer to its own job.
C11_ErrorOnlyOwnHandle ==
    \A r \in 1..Len(requests) :
        requests[r].state = "rejected" => requests[r].from = r

\* C12: a worker that exited is never selected by a later processJob, the
\* pending request it holds is eventually rejected, and the worker is
\* eventually removed from its pool.
C12_CrashHandled ==
    /\ [][(Step("processJob") /\ last'.ret = "promise")
             => ~threads[requests'[last'.val].worker].exited]_vars
    /\ \A r \in RequestIds :
          (r <= Len(requests) /\ requests[r].state = "pending"
                /\ threads[requests[r].worker].exited)
             ~> (r <= Len(requests) /\ requests[r].state = "rejected")
    /\ \A w \in WorkerIds :
          (w <= Len(threads) /\ threads[w].exited) ~> ~InPool(w)

\* C13: when every worker of the pool is busy and the pool is at maxWorkers,
\* processJob sends the job to no worker.
C13_NoSendWhenSaturated ==
    [][(Step("processJob") /\ Has(jobProcessors, last'.jt)
           /\ (\A w \in PoolWorkers(last'.jt) : Busy(w))
           /\ Len(jobProcessors[last'.jt].workers) = jobProcessors[last'.jt].maxWorkers)
         => \A w \in 1..Len(threads) : threads'[w].sent = threads[w].sent]_vars

\* C14: processJob sends the job to the idle worker with the lowest id; if no
\* worker is idle and the pool is below maxWorkers it spawns a worker and
\* sends the job to that one.
C14_Selection ==
    [][(Step("processJob") /\ last'.ret = "promise")
         => LET jt == last'.jt
                chosen == requests'[last'.val].worker
            IN IF IdleWorkers(jt) # {}
               THEN chosen \in IdleWorkers(jt)
                    /\ \A v \in IdleWorkers(jt) : chosen <= v
               ELSE Len(jobProcessors[jt].workers) < jobProcessors[jt].maxWorkers
                    => /\ WorkerCount(jobProcessors', jt) = WorkerCount(jobProcessors, jt) + 1
                       /\ chosen = Len(threads')]_vars

\* C15: a worker is in its pool only after it has taken the init message
\* (which an acknowledgement must follow), and no job is sent to a worker
\* that has not.
C15_InPoolOnlyAfterInit ==
    \A w \in 1..Len(threads) :
        threads[w].handler = "none" => (~InPool(w) /\ Len(threads[w].sent) <= 1)

\* the part of the state that belongs to job type B
PoolView(B) ==
    [entry |-> IF Has(jobProcessors, B) THEN <<jobProcessors[B]>> ELSE <<>>,
     workers |-> [w \in {v \in 1..Len(threads) : threads[v].jobType = B} |-> threads[w]],
     reqs |-> [r \in {q \in 1..Len(requests) : requests[q].jobType = B} |-> requests[r]]]

\* C16: a register, spawn or processJob call on one job type, whether it
\* succeeds or fails, leaves the pool, the workers (with their messages) and
\* the requests of every other job type unchanged.
C16_Independent ==
    [][\A B \in JobTypes :
          ((Step("register") \/ Step("spawn") \/ Step("processJob")) /\ last'.jt # B)
             => PoolView(B)' = PoolView(B)]_vars

C16_Witness ==
    /\ last.op = "processJob" /\ last.ret = "promise"
    /\ \E B \in Registered \ {last.jt} :
          \E r \in 1..Len(requests) :
              requests[r].jobType = B /\ requests[r].state = "pending"

\* C17: with the public calls only, every registered job type has exactly one
\* worker in every state, canSpawnWorker is maxWorkers > 1, and the worker
\* count of a job type never decreases.
C17_OneWorkerPerType ==
    /\ [](\A jt \in Registered :
             /\ WorkerCount(jobProcessors, jt) = 1
             /\ CanSpawn(jobProcessors, jt) <=> jobProcessors[jt].maxWorkers > 1)
    /\ [][(Step("canSpawnWorker") /\ Has(jobProcessors, last'.jt))
             => (last'.ret = "true" <=> jobProcessors[last'.jt].maxWorkers > 1)]_vars
    /\ [][\A jt \in JobTypes :
             WorkerCount(jobProcessors', jt) >= WorkerCount(jobProcessors, jt)]_vars

C17_Witness ==
    /\ last.op = "canSpawnWorker" /\ last.ret = "true"
    /\ Has(jobProcessors, last.jt)
    /\ jobProcessors[last.jt].maxWorkers = 2
    /\ Cardinality({r \in 1..Len(requests) : requests[r].jobType = last.jt}) >= 2

\* C18: the first message sent to every worker is the init message with the
\* handler of its job type, it is sent once, and every later message is a job
\* message without the handler.
C18_InitFirstAndOnce ==
    \A w \in 1..Len(threads) :
        LET s == threads[w].sent
        IN /\ Len(s) >= 1
           /\ s[1].type = "init"
           /\ Has(jobProcessors, threads[w].jobType)
           /\ s[1].fn = jobProcessors[threads[w].jobType].processorFunction
           /\ \A i \in 2..Len(s) : s[i].type = "job" /\ s[i].fn = "none"

C18_Witness ==
    /\ \E jt \in Registered : Len(jobProcessors[jt].workers) = 2
    /\ \E w \in 1..Len(threads) : Len(threads[w].sent) >= 3
====
